---- MODULE Spec2Model ----
(***************************************************************************)
(* A model of portfolio_tracker.py: a Streamlit script that keeps two      *)
(* holdings mappings (ETF, SCPI) per user in Supabase tables, parses them  *)
(* from two text areas and renders allocation, performance and summary     *)
(* views.  One action is one run of main() with the click or edit that     *)
(* triggered it.  Text is a sequence of one-character strings; a Python    *)
(* dict is a sequence of [k, v] records with distinct keys, in insertion   *)
(* order.  Amounts are integers: the alphabet of the model has no decimal  *)
(* point.  Percentages are kept in hundredths of a percent.                *)
(***************************************************************************)
EXTENDS Integers, Sequences, FiniteSets, TLC

VARIABLES
    authenticated,  \* st.session_state.authenticated
    user,           \* st.session_state.user (NoUser for None)
    users,          \* table 'users'
    user_etfs,      \* table 'user_etfs'
    user_scpis,     \* table 'user_scpis'
    page,           \* the page main() displayed in the last run
    notice,         \* the st.success / st.error messages of the last run
    saved_etfs,     \* main_app: the mapping load_user_etfs returned
    saved_scpis,    \* main_app: the mapping load_user_scpis returned
    load_log,       \* which of the two load queries of the last run succeeded
    etf_input,      \* the ETF text area
    scpi_input,     \* the SCPI text area
    etf_data,       \* parse_input(etf_input)
    scpi_data,      \* parse_input(scpi_input)
    df_allocation,  \* the rows of the allocation table
    fig_line,       \* the traces of the base-100 chart
    warnings,       \* the tickers st.warning reported in the performance view
    stats_data,     \* the rows of the performance statistics table
    perf_notice,    \* the message shown instead of the performance chart
    fetch_log,      \* what each yf.download call of the last run returned
    label,          \* the diversification message
    input_text,     \* parse_input: its argument
    data            \* parse_input: its result

sessionVars == <<authenticated, user>>

dbVars == <<users, user_etfs, user_scpis>>

runVars ==
    <<page, notice, saved_etfs, saved_scpis, load_log,
      etf_input, scpi_input, etf_data, scpi_data, df_allocation, fig_line,
      warnings, stats_data, perf_notice, fetch_log, label>>

parseVars == <<input_text, data>>

vars == <<sessionVars, dbVars, runVars, parseVars>>

----------------------------------------------------------------------------
(* Python str helpers *)

\* the whitespace characters of the model's alphabet (str.strip() strips them)
IsSpace(c) == c \in {" ", "\n"}

RECURSIVE LStrip(_)
LStrip(s) == IF s = <<>> \/ ~IsSpace(Head(s)) THEN s ELSE LStrip(Tail(s))

RECURSIVE RStrip(_)
RStrip(s) ==
    IF s = <<>> \/ ~IsSpace(s[Len(s)]) THEN s ELSE RStrip(SubSeq(s, 1, Len(s) - 1))

\* str.strip()
Strip(s) == RStrip(LStrip(s))

\* sep in s
Contains(s, sep) == \E i \in DOMAIN s : s[i] = sep

\* str.split(sep): always at least one field, empty fields kept
RECURSIVE SplitAcc(_, _, _)
SplitAcc(s, sep, acc) ==
    IF s = <<>> THEN acc
    ELSE IF Head(s) = sep
         THEN SplitAcc(Tail(s), sep, Append(acc, <<>>))
         ELSE SplitAcc(Tail(s), sep,
                       [acc EXCEPT ![Len(acc)] = Append(acc[Len(acc)], Head(s))])

Split(s, sep) == SplitAcc(s, sep, << <<>> >>)

Digits == <<"0", "1", "2", "3", "4", "5", "6", "7", "8", "9">>

IsDigit(c) == \E i \in DOMAIN Digits : Digits[i] = c

DigitVal(c) == (CHOOSE i \in DOMAIN Digits : Digits[i] = c) - 1

RECURSIVE DecVal(_, _)
DecVal(s, acc) == IF s = <<>> THEN acc ELSE DecVal(Tail(s), 10 * acc + DigitVal(Head(s)))

\* the digits of a float literal without its sign
FloatBody(s) == IF s # <<>> /\ Head(s) \in {"-", "+"} THEN Tail(s) ELSE s

\* float(s) does not raise ValueError: an optional sign and at least one digit
\* (the literals the model's alphabet can spell)
FloatOk(s) == FloatBody(s) # <<>> /\ \A i \in DOMAIN FloatBody(s) : IsDigit(FloatBody(s)[i])

\* float(s) when FloatOk(s)
FloatVal(s) ==
    IF s # <<>> /\ Head(s) = "-" THEN 0 - DecVal(FloatBody(s), 0) ELSE DecVal(FloatBody(s), 0)

----------------------------------------------------------------------------
(* Python dict helpers *)

DictKeys(d) == {d[i].k : i \in DOMAIN d}

DictGet(d, key) == d[CHOOSE i \in DOMAIN d : d[i].k = key].v

\* d[key] = value: an existing key keeps its position
DictSet(d, key, value) ==
    IF key \in DictKeys(d)
    THEN [i \in DOMAIN d |-> IF d[i].k = key THEN [k |-> key, v |-> value] ELSE d[i]]
    ELSE Append(d, [k |-> key, v |-> value])

\* the keys of a dict are distinct
IsDict(d) == \A i, j \in DOMAIN d : d[i].k = d[j].k => i = j

\* dict equality: same keys and values, order irrelevant
DictEq(d, e) ==
    /\ DictKeys(d) = DictKeys(e)
    /\ \A key \in DictKeys(d) : DictGet(d, key) = DictGet(e, key)

----------------------------------------------------------------------------
(* parse_input *)

\* a mutation of ParseLine: a duplicate name adds to the stored amount
ParseLine_additive(rawline, d) ==
    LET line == Strip(rawline) IN
    IF line # <<>> /\ Contains(line, ",")
    THEN LET parts == Split(line, ",") IN
         IF Len(parts) = 2
         THEN LET name == Strip(parts[1])
                  amount == Strip(parts[2]) IN
              IF FloatOk(amount)
              THEN DictSet(d, name,
                           IF name \in DictKeys(d) THEN DictGet(d, name) + FloatVal(amount)
                           ELSE FloatVal(amount))
              ELSE d
         ELSE d
    ELSE d

\* the body of the loop over the lines
ParseLine(rawline, d) ==
    LET line == Strip(rawline) IN
    IF line # <<>> /\ Contains(line, ",")
    THEN LET parts == Split(line, ",") IN
         IF Len(parts) = 2
         THEN LET name == parts[1]
                  amount == parts[2] IN
              IF FloatOk(Strip(amount))
              THEN DictSet(d, Strip(name), FloatVal(Strip(amount)))
              ELSE d
         ELSE d
    ELSE d

RECURSIVE ParseLines(_, _)
ParseLines(lines, d) ==
    IF lines = <<>> THEN d ELSE ParseLines(Tail(lines), ParseLine(Head(lines), d))

parse_input(text) == ParseLines(Split(Strip(text), "\n"), <<>>)

----------------------------------------------------------------------------
(* Authentication *)

\* hashlib.sha256(password).hexdigest(): distinct passwords, distinct digests
hash_password(password) == <<"sha256", password>>

\* st.session_state.user = None
NoUser == [id |-> 0, email |-> "", username |-> "", password_hash |-> <<"", "">>]

\* create_user: the insert into 'users'; fail is an exception of the backend
\* (the database assigns the id)
create_user(email, username, password, fail) ==
    IF fail
    THEN [success |-> FALSE, message |-> "Erreur", table |-> users]
    ELSE [success |-> TRUE, message |-> "Compte cree avec succes !",
          table |-> Append(users,
                           [id |-> Len(users) + 1, email |-> email, username |-> username,
                            password_hash |-> hash_password(password)])]

\* the rows the select of login_user returns
MatchingUsers(username, password) ==
    SelectSeq(users, LAMBDA r : r.username = username
                                /\ r.password_hash = hash_password(password))

\* login_user: (True, the first matching row) or (False, a message)
login_user(username, password, fail) ==
    IF fail THEN [success |-> FALSE, result |-> NoUser, message |-> "Erreur"]
    ELSE IF Len(MatchingUsers(username, password)) > 0
         THEN [success |-> TRUE, result |-> MatchingUsers(username, password)[1],
               message |-> ""]
         ELSE [success |-> FALSE, result |-> NoUser, message |-> "Identifiants incorrects"]

----------------------------------------------------------------------------
(* Persistence: a row of user_etfs or user_scpis is [user_id, key, amount],  *)
(* key being the column 'ticker' of user_etfs and 'name' of user_scpis       *)

\* select('*').eq('user_id', user_id)
RowsOf(table, user_id) == SelectSeq(table, LAMBDA r : r.user_id = user_id)

\* the loop of load_user_etfs / load_user_scpis over response.data;
\* float() of a stored number is that number
RECURSIVE LoadRows(_, _)
LoadRows(rows, d) ==
    IF rows = <<>> THEN d
    ELSE LoadRows(Tail(rows), DictSet(d, Head(rows).key, Head(rows).amount))

\* load_user_etfs / load_user_scpis: {} when the query raises
load_user(table, user_id, fail) ==
    IF fail THEN <<>> ELSE LoadRows(RowsOf(table, user_id), <<>>)

\* the mapping a table holds for a user
Stored(table, user_id) == LoadRows(RowsOf(table, user_id), <<>>)

\* the rows the first n inserts of a save add
InsertedRows(user_id, d, n) ==
    [i \in 1..n |-> [user_id |-> user_id, key |-> d[i].k, amount |-> d[i].v]]

\* a mutation of save_user: the old rows of the user are not deleted
save_user_noDelete(table, user_id, d, failAt) ==
    IF failAt = 0
    THEN [ok |-> FALSE, table |-> table]
    ELSE IF failAt <= Len(d)
         THEN [ok |-> FALSE, table |-> table \o InsertedRows(user_id, d, failAt - 1)]
         ELSE [ok |-> TRUE, table |-> table \o InsertedRows(user_id, d, Len(d))]

\* save_user_etfs / save_user_scpis: delete the rows of the user, then insert
\* one row per entry.  failAt is the backend call that raises: 0 the delete,
\* i the i-th insert, Len(d) + 1 none.  The except branch returns False and
\* leaves the table as the calls made so far left it.
save_user(table, user_id, d, failAt) ==
    LET deleted == SelectSeq(table, LAMBDA r : r.user_id # user_id) IN
    IF failAt = 0
    THEN [ok |-> FALSE, table |-> table]
    ELSE IF failAt <= Len(d)
         THEN [ok |-> FALSE, table |-> deleted \o InsertedRows(user_id, d, failAt - 1)]
         ELSE [ok |-> TRUE, table |-> deleted \o InsertedRows(user_id, d, Len(d))]

NoLoad == [user_id |-> 0, etf_ok |-> FALSE, scpi_ok |-> FALSE]

----------------------------------------------------------------------------
(* main_app: the allocation view *)

ETFPrefix == <<"E", "T", "F", ":", " ">>

SCPIPrefix == <<"S", "C", "P", "I", ":", " ">>

\* for name, amount in d.items(): all_assets[prefix + name] = amount
RECURSIVE AddAssets(_, _, _)
AddAssets(d, prefix, all) ==
    IF d = <<>> THEN all
    ELSE AddAssets(Tail(d), prefix, DictSet(all, prefix \o Head(d).k, Head(d).v))

all_assets(etf, scpi) == AddAssets(scpi, SCPIPrefix, AddAssets(etf, ETFPrefix, <<>>))

\* sum(d.values())
RECURSIVE SumValues(_)
SumValues(d) == IF d = <<>> THEN 0 ELSE Head(d).v + SumValues(Tail(d))

\* a mutation of RoundHalfEven: the quotient is truncated downwards
RoundHalfEven_floor(num, den) ==
    IF den > 0 THEN num \div den ELSE (0 - num) \div (0 - den)

\* the integer nearest to num / den (den # 0), a tie going to the even one:
\* what Series.round does to a value times 100
RoundHalfEven(num, den) ==
    LET n == IF den > 0 THEN num ELSE 0 - num
        m == IF den > 0 THEN den ELSE 0 - den
        q == n \div m
        r == n - q * m
    IN  IF 2 * r < m THEN q
        ELSE IF 2 * r > m THEN q + 1
        ELSE IF q % 2 = 0 THEN q ELSE q + 1

\* (Montant / total * 100).round(2), in hundredths of a percent; a division
\* by a total of 0 raises nothing and gives nan, inf or -inf
Pourcentage(amount, total) ==
    IF total # 0
    THEN [kind |-> "number", hundredths |-> RoundHalfEven(amount * 10000, total)]
    ELSE [kind |-> IF amount = 0 THEN "nan" ELSE IF amount > 0 THEN "inf" ELSE "-inf",
          hundredths |-> 0]

\* df_allocation: one row per entry of all_assets when all_assets is not
\* empty, no row (and a warning) otherwise
Allocation(etf, scpi) ==
    LET all == all_assets(etf, scpi)
        total == SumValues(all)
    IN  IF all # <<>>
        THEN [i \in DOMAIN all |->
                [Actif |-> all[i].k, Montant |-> all[i].v,
                 Pourcentage |-> Pourcentage(all[i].v, total)]]
        ELSE <<>>

----------------------------------------------------------------------------
(* main_app: the performance view.  A call of yf.download returns          *)
(* [kind, close]: kind "data" with the closing prices, "empty" for an      *)
(* empty frame, "throw" for an exception.                                  *)

\* close_prices / close_prices.iloc[0] * 100
Normalized(close) == [i \in DOMAIN close |-> (close[i] * 100) \div close[1]]

\* ((close_prices.iloc[-1] / close_prices.iloc[0]) - 1) * 100
Performance(close) == (close[Len(close)] * 100) \div close[1] - 100

\* a mutation of TraceLoop: an exception of one download ends the loop
RECURSIVE TraceLoop_abort(_, _, _, _)
TraceLoop_abort(etf, feed, i, acc) ==
    IF i > Len(etf) THEN acc
    ELSE IF feed[i].kind = "data"
         THEN TraceLoop_abort(etf, feed, i + 1,
                [acc EXCEPT !.traces = Append(@, [name |-> etf[i].k,
                                                  y |-> Normalized(feed[i].close)])])
         ELSE IF feed[i].kind = "throw"
              THEN [acc EXCEPT !.warnings = Append(@, etf[i].k)]
              ELSE TraceLoop_abort(etf, feed, i + 1, acc)

\* the first loop over etf_data.keys(): a trace for a non-empty frame,
\* nothing for an empty one, st.warning for an exception
RECURSIVE TraceLoop(_, _, _, _)
TraceLoop(etf, feed, i, acc) ==
    IF i > Len(etf) THEN acc
    ELSE IF feed[i].kind = "data"
         THEN TraceLoop(etf, feed, i + 1,
                [acc EXCEPT !.traces = Append(@, [name |-> etf[i].k,
                                                  y |-> Normalized(feed[i].close)])])
         ELSE IF feed[i].kind = "throw"
              THEN TraceLoop(etf, feed, i + 1,
                             [acc EXCEPT !.warnings = Append(@, etf[i].k)])
              ELSE TraceLoop(etf, feed, i + 1, acc)

\* the second loop over etf_data.keys(), with a download of its own per
\* ticker: a row for a non-empty frame, nothing otherwise (except: pass)
RECURSIVE StatsLoop(_, _, _, _)
StatsLoop(etf, feed, i, acc) ==
    IF i > Len(etf) THEN acc
    ELSE IF feed[i].kind = "data"
         THEN StatsLoop(etf, feed, i + 1,
                Append(acc, [ETF |-> etf[i].k,
                             Performance |-> Performance(feed[i].close),
                             Prix |-> feed[i].close[Len(feed[i].close)]]))
         ELSE StatsLoop(etf, feed, i + 1, acc)

----------------------------------------------------------------------------
(* main_app: the summary *)

\* a mutation of Diversification: the comparison at 80 is not strict
Diversification_inclusive80(total_etf, total_scpi) ==
    LET total_portfolio == total_etf + total_scpi IN
    IF total_portfolio > 0
    THEN IF total_etf * 100 >= 80 * total_portfolio THEN "fortement oriente bourse"
         ELSE IF total_scpi * 100 >= 80 * total_portfolio
              THEN "fortement oriente immobilier"
         ELSE IF 40 * total_portfolio <= total_etf * 100
                 /\ total_etf * 100 <= 60 * total_portfolio
              THEN "bonne diversification equilibree"
         ELSE "portfolio mixte"
    ELSE "none"

\* the message under "Diversification", "none" when the section is not
\* shown.  pct_etf = total_etf / total_portfolio * 100 is compared with k as
\* total_etf * 100 against k * total_portfolio (total_portfolio > 0).
Diversification(total_etf, total_scpi) ==
    LET total_portfolio == total_etf + total_scpi IN
    IF total_portfolio > 0
    THEN IF total_etf * 100 > 80 * total_portfolio THEN "fortement oriente bourse"
         ELSE IF total_scpi * 100 > 80 * total_portfolio
              THEN "fortement oriente immobilier"
         ELSE IF 40 * total_portfolio <= total_etf * 100
                 /\ total_etf * 100 <= 60 * total_portfolio
              THEN "bonne diversification equilibree"
         ELSE "portfolio mixte"
    ELSE "none"

----------------------------------------------------------------------------
(* The runs of main() *)

\* the longest table 'users'
MaxUsers == 2

\* the most lines the user puts in the ETF text area
MaxEtfLines == 2

\* the most lines the user puts in the SCPI text area
MaxScpiLines == 3

NoFetch == [first |-> <<>>, second |-> <<>>]

Init ==
    /\ authenticated = FALSE
    /\ user = NoUser
    /\ users = <<>>
    /\ user_etfs = <<>>
    /\ user_scpis = <<>>
    /\ page = "auth"
    /\ notice = <<>>
    /\ saved_etfs = <<>>
    /\ saved_scpis = <<>>
    /\ load_log = NoLoad
    /\ etf_input = <<>>
    /\ scpi_input = <<>>
    /\ etf_data = <<>>
    /\ scpi_data = <<>>
    /\ df_allocation = <<>>
    /\ fig_line = <<>>
    /\ warnings = <<>>
    /\ stats_data = <<>>
    /\ perf_notice = "none"
    /\ fetch_log = NoFetch
    /\ label = "none"
    /\ input_text = <<>>
    /\ data = <<>>

\* a run that shows the login page: nothing of main_app is computed
AuthPageShown ==
    /\ page' = "auth"
    /\ saved_etfs' = <<>>
    /\ saved_scpis' = <<>>
    /\ load_log' = NoLoad
    /\ etf_input' = <<>>
    /\ scpi_input' = <<>>
    /\ etf_data' = <<>>
    /\ scpi_data' = <<>>
    /\ df_allocation' = <<>>
    /\ fig_line' = <<>>
    /\ warnings' = <<>>
    /\ stats_data' = <<>>
    /\ perf_notice' = "none"
    /\ fetch_log' = NoFetch
    /\ label' = "none"

\* a mutation of Login: the session is authenticated whatever login_user returns
Login_authOnFailure(username, password, fail) ==
    /\ ~authenticated
    /\ IF username # "" /\ password # ""
       THEN LET r == login_user(username, password, fail) IN
            /\ user' = r.result
            /\ authenticated' = TRUE
            /\ notice' = <<IF r.success THEN "Connexion reussie !" ELSE r.message>>
       ELSE /\ notice' = <<"Veuillez remplir tous les champs">>
            /\ UNCHANGED sessionVars
    /\ AuthPageShown
    /\ UNCHANGED <<dbVars, parseVars>>

\* auth_page, "Se connecter": on success the session is set and st.rerun()
\* starts the next run, which is one of the runs of main_app below
Login(username, password, fail) ==
    /\ ~authenticated
    /\ IF username # "" /\ password # ""
       THEN LET r == login_user(username, password, fail) IN
            IF r.success
            THEN /\ user' = r.result
                 /\ authenticated' = TRUE
                 /\ notice' = <<"Connexion reussie !">>
            ELSE /\ notice' = <<r.message>>
                 /\ UNCHANGED sessionVars
       ELSE /\ notice' = <<"Veuillez remplir tous les champs">>
            /\ UNCHANGED sessionVars
    /\ AuthPageShown
    /\ UNCHANGED <<dbVars, parseVars>>

\* auth_page, "Creer le compte"
SignUp(new_email, new_username, new_password, new_password_confirm, fail) ==
    /\ ~authenticated
    /\ Len(users) < MaxUsers
    /\ IF new_email # "" /\ new_username # "" /\ new_password # ""
          /\ new_password_confirm # ""
       THEN IF new_password # new_password_confirm
            THEN /\ notice' = <<"Les mots de passe ne correspondent pas">>
                 /\ users' = users
            ELSE IF Len(new_password) < 6
            THEN /\ notice' = <<"Le mot de passe doit contenir au moins 6 caracteres">>
                 /\ users' = users
            ELSE LET r == create_user(new_email, new_username, new_password, fail) IN
                 /\ users' = r.table
                 /\ notice' = <<r.message>>
       ELSE /\ notice' = <<"Veuillez remplir tous les champs">>
            /\ users' = users
    /\ AuthPageShown
    /\ UNCHANGED <<sessionVars, user_etfs, user_scpis, parseVars>>

\* main_app, "Deconnexion": the session is reset and st.rerun() shows the
\* login page
Logout ==
    /\ authenticated
    /\ page = "main"
    /\ authenticated' = FALSE
    /\ user' = NoUser
    /\ notice' = <<>>
    /\ AuthPageShown
    /\ UNCHANGED <<dbVars, parseVars>>

\* main_app from parse_input to the summary, on the two texts; Provider is
\* the set of results a download may have in this run
Render(etf_text, scpi_text, Provider) ==
    \E etf \in {parse_input(etf_text)}, scpi \in {parse_input(scpi_text)} :
        /\ etf_input' = etf_text
        /\ scpi_input' = scpi_text
        /\ etf_data' = etf
        /\ scpi_data' = scpi
        /\ df_allocation' = Allocation(etf, scpi)
        /\ \E feed1 \in [1..Len(etf) -> Provider] :
           \E loop1 \in {TraceLoop(etf, feed1, 1, [traces |-> <<>>, warnings |-> <<>>])} :
              /\ fig_line' = loop1.traces
              /\ warnings' = loop1.warnings
              /\ perf_notice' = IF etf = <<>> THEN "Aucun ETF configure"
                                ELSE IF loop1.traces = <<>>
                                     THEN "Impossible de charger les donnees des ETF"
                                     ELSE "none"
              /\ IF loop1.traces # <<>>
                 THEN \E feed2 \in [1..Len(etf) -> Provider] :
                         /\ stats_data' = StatsLoop(etf, feed2, 1, <<>>)
                         /\ fetch_log' = [first |-> feed1, second |-> feed2]
                 ELSE /\ stats_data' = <<>>
                      /\ fetch_log' = [first |-> feed1, second |-> <<>>]
        /\ label' = Diversification(SumValues(etf), SumValues(scpi))

\* main_app up to the text areas: the two loads
Load(etf_fail, scpi_fail) ==
    /\ page' = "main"
    /\ saved_etfs' = load_user(user_etfs, user.id, etf_fail)
    /\ saved_scpis' = load_user(user_scpis, user.id, scpi_fail)
    /\ load_log' = [user_id |-> user.id, etf_ok |-> ~etf_fail, scpi_ok |-> ~scpi_fail]

\* a run of main_app without a click on "Sauvegarder"
View(etf_text, scpi_text, etf_fail, scpi_fail, Provider) ==
    /\ authenticated
    /\ Load(etf_fail, scpi_fail)
    /\ notice' = <<>>
    /\ Render(etf_text, scpi_text, Provider)
    /\ UNCHANGED <<sessionVars, dbVars, parseVars>>

\* the number of lines of a text area
LineCount(text) == IF text = <<>> THEN 0 ELSE Len(Split(text, "\n"))

\* the text with one more line
AddLine(text, line) == IF text = <<>> THEN line ELSE text \o <<"\n">> \o line

\* the user adds a line to the ETF text area and the script reruns
EditEtfInput(line, etf_fail, scpi_fail, Provider) ==
    /\ page = "main"
    /\ LineCount(etf_input) < MaxEtfLines
    /\ View(AddLine(etf_input, line), scpi_input, etf_fail, scpi_fail, Provider)

\* the user adds a line to the SCPI text area and the script reruns
EditScpiInput(line, etf_fail, scpi_fail, Provider) ==
    /\ page = "main"
    /\ LineCount(scpi_input) < MaxScpiLines
    /\ View(etf_input, AddLine(scpi_input, line), etf_fail, scpi_fail, Provider)

\* "Actualiser", or the rerun after a login: the script reruns on the same texts
Refresh(etf_fail, scpi_fail, Provider) ==
    /\ authenticated
    /\ View(etf_input, scpi_input, etf_fail, scpi_fail, Provider)

\* "Sauvegarder": save_user_etfs(...) and save_user_scpis(...), the second
\* call made only when the first returned True; then the views as in any run
SaveClick(etf_fail, scpi_fail, etfFailAt, scpiFailAt, Provider) ==
    /\ authenticated
    /\ page = "main"
    /\ \E etf \in {parse_input(etf_input)}, scpi \in {parse_input(scpi_input)} :
       /\ etfFailAt <= Len(etf) + 1
       /\ scpiFailAt <= Len(scpi) + 1
       /\ \E e \in {save_user(user_etfs, user.id, etf, etfFailAt)},
             s \in {save_user(user_scpis, user.id, scpi, scpiFailAt)} :
          /\ user_etfs' = e.table
          /\ user_scpis' = IF e.ok THEN s.table ELSE user_scpis
          /\ notice' = (IF e.ok THEN <<>> ELSE <<"Erreur sauvegarde ETF">>)
                       \o (IF e.ok /\ ~s.ok THEN <<"Erreur sauvegarde SCPI">> ELSE <<>>)
                       \o (IF e.ok /\ s.ok THEN <<"Sauvegarde !">>
                           ELSE <<"Erreur de sauvegarde">>)
    /\ Load(etf_fail, scpi_fail)
    /\ Render(etf_input, scpi_input, Provider)
    /\ UNCHANGED <<sessionVars, users, parseVars>>

----------------------------------------------------------------------------
(* The results of the market-data provider *)

\* the closing prices a download returns (prices whose quotients above are
\* exact)
Series == {<<1, 2>>, <<2, 1>>}

Throws == [kind |-> "throw", close |-> <<>>]

Empty == [kind |-> "empty", close |-> <<>>]

\* every download throws
ProviderDown == {Throws}

\* a download throws, returns an empty frame or returns prices
ProviderAny == {Throws, Empty} \cup {[kind |-> "data", close |-> s] : s \in Series}

----------------------------------------------------------------------------
(* Sessions and persistence: sign-ups, logins, saves and reloads, with a   *)
(* backend any call of which may raise                                      *)

LoginNames == {"", "u1", "u2"}

LoginPasswords == {"secret1", "wrong12"}

SignUpNames == {"u1", "u2"}

SignUpPasswords == {"short", "secret1"}

SignUpConfirms == {"", "secret1"}

StoreEtfLines == {<<"a", ",", "1">>, <<"b", ",", "2">>}

\* the backend calls of a save that may raise (the guard of SaveClick keeps
\* those the mapping has)
FailPoints == 0..(MaxEtfLines + 1)

Next ==
    \/ \E username \in LoginNames, password \in LoginPasswords, fail \in BOOLEAN :
          Login(username, password, fail)
    \/ \E new_username \in SignUpNames, new_password \in SignUpPasswords,
          new_password_confirm \in SignUpConfirms, fail \in BOOLEAN :
          SignUp("e@x", new_username, new_password, new_password_confirm, fail)
    \/ Logout
    \/ \E line \in StoreEtfLines : EditEtfInput(line, FALSE, FALSE, ProviderDown)
    \/ \E etf_fail \in BOOLEAN : Refresh(etf_fail, etf_fail, ProviderDown)
    \/ \E etfFailAt \in FailPoints, scpiFailAt \in FailPoints :
          SaveClick(FALSE, FALSE, etfFailAt, scpiFailAt, ProviderDown)

Spec == Init /\ [][Next]_vars

\* the last run was a click on "Sauvegarder"
SaveRan == page = "main" /\ notice # <<>>

\* save_user_etfs returned True in the last run
EtfSaveOk == SaveRan /\ notice[1] # "Erreur sauvegarde ETF"

\* save_user_etfs and save_user_scpis returned True in the last run
ScpiSaveOk == SaveRan /\ notice = <<"Sauvegarde !">>

\* C1: once a save returns, the mapping stored for the user is exactly the
\* new mapping or exactly the mapping stored before the call, whichever
\* backend call failed.
C1_SaveIsAtomic ==
    [][SaveRan' =>
          /\ \/ DictEq(Stored(user_etfs', user.id), etf_data')
             \/ DictEq(Stored(user_etfs', user.id), Stored(user_etfs, user.id))
          /\ \/ DictEq(Stored(user_scpis', user.id), scpi_data')
             \/ DictEq(Stored(user_scpis', user.id), Stored(user_scpis, user.id))]_vars

\* C2: round trip.  After a save of a mapping that returned True, the next
\* run loads for the same user (its query answering) a mapping with exactly
\* the same keys and amounts, whatever was stored for the user before.
C2_RoundTripAfterSuccess ==
    [][page' = "main" =>
          /\ (EtfSaveOk /\ load_log'.etf_ok) => DictEq(saved_etfs', etf_data)
          /\ (ScpiSaveOk /\ load_log'.scpi_ok) => DictEq(saved_scpis', scpi_data)]_vars

\* a run without a save has reloaded a complete two-entry mapping, beside
\* the rows of another user
C2_Witness ==
    /\ page = "main"
    /\ notice = <<>>
    /\ load_log.etf_ok
    /\ Len(saved_etfs) = 2
    /\ DictEq(saved_etfs, etf_data)
    /\ \E i \in DOMAIN user_etfs : user_etfs[i].user_id # user.id

\* the session is authenticated only with a record of 'users', and main_app
\* has run only in an authenticated session
SessionOk ==
    /\ authenticated => (user # NoUser /\ \E i \in DOMAIN users : users[i] = user)
    /\ ~authenticated => user = NoUser
    /\ page = "main" => authenticated

\* only a successful login authenticates; a logout resets the session and
\* shows the login page
SessionStep ==
    /\ (~authenticated /\ authenticated') =>
          /\ notice' = <<"Connexion reussie !">>
          /\ \E username \in LoginNames, password \in LoginPasswords :
                /\ login_user(username, password, FALSE).success
                /\ user' = login_user(username, password, FALSE).result
    /\ (authenticated /\ ~authenticated') => (user' = NoUser /\ page' = "auth")
    /\ page' = "main" => authenticated

\* C10: over any sequence of runs the session is authenticated only if
\* session_state.user is a record a successful login_user returned, main_app
\* runs only when authenticated, a failed login or a sign-up never
\* authenticates, and a logout resets authenticated and user.
C10_SessionInvariant == []SessionOk /\ [][SessionStep]_vars

\* the login page after a logout, with an account in 'users'
C10_Witness ==
    /\ ~authenticated
    /\ user = NoUser
    /\ page = "auth"
    /\ notice = <<>>
    /\ users # <<>>

----------------------------------------------------------------------------
(* The allocation view and the summary on the holdings a logged-in user    *)
(* types                                                                    *)

AllocEtfLines ==
    {<<"a", ",", "1">>, <<"b", ",", "1">>, <<"b", ",", "3">>, <<"a", ",", "0">>}

AllocScpiLines ==
    {<<"a", ",", "1">>, <<"b", ",", "1">>, <<"c", ",", "3">>, <<"a", ",", "-", "1">>}

NextAlloc ==
    \/ SignUp("e@x", "u1", "secret1", "secret1", FALSE)
    \/ Login("u1", "secret1", FALSE)
    \/ \E line \in AllocEtfLines : EditEtfInput(line, FALSE, FALSE, ProviderDown)
    \/ \E line \in AllocScpiLines : EditScpiInput(line, FALSE, FALSE, ProviderDown)
    \/ Refresh(FALSE, FALSE, ProviderDown)

SpecAlloc == Init /\ [][NextAlloc]_vars

\* the grand total of the holdings of the last run
GrandTotal == SumValues(etf_data) + SumValues(scpi_data)

\* the sum of the percentage column, in hundredths of a percent
RECURSIVE SumPourcentage(_)
SumPourcentage(rows) ==
    IF rows = <<>> THEN 0 ELSE Head(rows).Pourcentage.hundredths + SumPourcentage(Tail(rows))

Abs(x) == IF x < 0 THEN 0 - x ELSE x

\* C5: whenever the grand total is 0 the allocation view has no row and the
\* division amount / total is not evaluated.
C5_NoRowsWhenTotalZero ==
    (page = "main" /\ GrandTotal = 0) => df_allocation = <<>>

\* C6 as stated: with a grand total above 0 the percentages sum to 100
\* within 0.01, for any number of rows.
C6_SumTo100 ==
    (page = "main" /\ GrandTotal > 0) => Abs(SumPourcentage(df_allocation) - 10000) <= 1

\* C6 as amended: with a grand total above 0 the percentages sum to 100
\* within 0.005 per row.
C6_SumWithinHalfPerRow ==
    (page = "main" /\ GrandTotal > 0) =>
        2 * Abs(SumPourcentage(df_allocation) - 10000) <= Len(df_allocation)

\* five rows whose rounded percentages do not sum to 100
C6_Witness ==
    /\ page = "main"
    /\ GrandTotal > 0
    /\ Len(df_allocation) >= 5
    /\ SumPourcentage(df_allocation) # 10000

\* C7: the diversification label is the first matching row of the decision
\* table on the category percentages: above 80 for ETF, else above 80 for
\* SCPI, else ETF between 40 and 60 inclusive, else mixed; exactly one label
\* for a grand total above 0, and 80/20 is mixed.
C7_DecisionTable ==
    page = "main" =>
        LET te == SumValues(etf_data)
            ts == SumValues(scpi_data)
            tp == te + ts
            etfHeavy == te * 100 > 80 * tp
            scpiHeavy == ts * 100 > 80 * tp
            balanced == 40 * tp <= te * 100 /\ te * 100 <= 60 * tp
        IN  IF tp > 0
            THEN /\ label \in {"fortement oriente bourse", "fortement oriente immobilier",
                               "bonne diversification equilibree", "portfolio mixte"}
                 /\ label = "fortement oriente bourse" <=> etfHeavy
                 /\ label = "fortement oriente immobilier" <=> (~etfHeavy /\ scpiHeavy)
                 /\ label = "bonne diversification equilibree"
                       <=> (~etfHeavy /\ ~scpiHeavy /\ balanced)
                 /\ (te * 100 = 80 * tp \/ ts * 100 = 80 * tp) => label = "portfolio mixte"
                 /\ (te * 100 = 40 * tp \/ te * 100 = 60 * tp)
                       => label = "bonne diversification equilibree"
            ELSE label = "none"

\* an 80/20 portfolio, labelled mixed
C7_Witness ==
    /\ page = "main"
    /\ GrandTotal > 0
    /\ SumValues(etf_data) * 100 = 80 * GrandTotal
    /\ label = "portfolio mixte"

----------------------------------------------------------------------------
(* The performance view with a provider each call of which may succeed,    *)
(* return nothing or throw                                                  *)

PerfEtfLines == {<<"a", ",", "1">>, <<"b", ",", "1">>}

NextPerf ==
    \/ SignUp("e@x", "u1", "secret1", "secret1", FALSE)
    \/ Login("u1", "secret1", FALSE)
    \/ \E line \in PerfEtfLines : EditEtfInput(line, FALSE, FALSE, ProviderAny)
    \/ Refresh(FALSE, FALSE, ProviderAny)

SpecPerf == Init /\ [][NextPerf]_vars

\* the tickers with a trace in the chart
Charted == {fig_line[i].name : i \in DOMAIN fig_line}

\* the tickers with a row in the statistics table
WithStats == {stats_data[i].ETF : i \in DOMAIN stats_data}

\* the tickers reported with a warning
Warned == {warnings[i] : i \in DOMAIN warnings}

\* C3: if the download of ticker A throws and that of ticker B returns
\* prices, in either order, B's normalized series is in the chart and A is
\* reported with a warning.
C3_PerTickerIsolation ==
    \A a, b \in DOMAIN fetch_log.first :
        (fetch_log.first[a].kind = "throw" /\ fetch_log.first[b].kind = "data") =>
            /\ \E i \in DOMAIN fig_line :
                  /\ fig_line[i].name = etf_data[b].k
                  /\ fig_line[i].y = Normalized(fetch_log.first[b].close)
            /\ etf_data[a].k \in Warned

\* the first ticker's download threw and the second one's returned prices
C3_Witness ==
    /\ Len(fetch_log.first) = 2
    /\ fetch_log.first[1].kind = "throw"
    /\ fetch_log.first[2].kind = "data"
    /\ Charted = {etf_data[2].k}

\* C4: a download that returns an empty frame and one that throws are
\* handled alike: no series, no statistics, and a warning for the ticker.
C4_EmptyAndThrowAlike ==
    /\ \A i \in DOMAIN fetch_log.first :
          fetch_log.first[i].kind \in {"empty", "throw"} =>
              (etf_data[i].k \notin Charted /\ etf_data[i].k \in Warned)
    /\ \A i \in DOMAIN fetch_log.second :
          fetch_log.second[i].kind \in {"empty", "throw"} => etf_data[i].k \notin WithStats

\* C9: in a render the tickers with a row in the statistics table are the
\* tickers with a trace in the chart.
C9_StatsMatchChart == WithStats = Charted

----------------------------------------------------------------------------
(* The parser applied to every text the user can type *)

\* the characters the user types
Alphabet == {"a", "1", "2", ",", " ", "\n"}

\* the longest text
MaxLen == 6

\* one more character in the text area; the script reruns and parses it
TypeChar(c) ==
    /\ Len(input_text) < MaxLen
    /\ input_text' = Append(input_text, c)
    /\ data' = parse_input(input_text')
    /\ UNCHANGED <<sessionVars, dbVars, runVars>>

NextParse == \E c \in Alphabet : TypeChar(c)

SpecParse == Init /\ [][NextParse]_vars

\* the lines of the text
LinesOf(text) == Split(text, "\n")

\* a line is well-formed: trimmed, it splits on ',' into exactly two fields
\* and the trimmed second field parses as a number
WellFormed(line) ==
    LET fields == Split(Strip(line), ",") IN
    Len(fields) = 2 /\ FloatOk(Strip(fields[2]))

NameOf(line) == Strip(Split(Strip(line), ",")[1])

AmountOf(line) == FloatVal(Strip(Split(Strip(line), ",")[2]))

\* the indices of the well-formed lines carrying a name
Carriers(text, name) ==
    {i \in DOMAIN LinesOf(text) : WellFormed(LinesOf(text)[i]) /\ NameOf(LinesOf(text)[i]) = name}

Max(S) == CHOOSE x \in S : \A y \in S : y <= x

\* C8: parse_input returns exactly the mapping that gives each trimmed name
\* the amount of the last well-formed line carrying it; every other line
\* contributes nothing, and amounts of duplicate names are never added.
C8_LastWellFormedLineWins ==
    /\ IsDict(data)
    /\ DictKeys(data) =
         {NameOf(LinesOf(input_text)[i]) :
            i \in {j \in DOMAIN LinesOf(input_text) : WellFormed(LinesOf(input_text)[j])}}
    /\ \A name \in DictKeys(data) :
         DictGet(data, name) =
            AmountOf(LinesOf(input_text)[Max(Carriers(input_text, name))])

\* a name on two well-formed lines with different amounts
C8_Witness ==
    \E name \in DictKeys(data) :
        /\ Cardinality(Carriers(input_text, name)) >= 2
        /\ \E i, j \in Carriers(input_text, name) :
              AmountOf(LinesOf(input_text)[i]) # AmountOf(LinesOf(input_text)[j])

====
